---- MODULE Spec2Model ----
(***************************************************************************)
(* Model of the LiveMart backend's stateful parts: the inventory record    *)
(* (stock and reservation counters, src/unnamed/part_001) and the auth     *)
(* service's refresh-token lifecycle (src/server/src/services/             *)
(* auth.service.ts).                                                       *)
(*                                                                         *)
(* Seven specifications share the module:                                  *)
(*   Spec         one in-memory inventory document and its persisted copy, *)
(*                driven by any sequence of method calls;                  *)
(*   RaceSpec     several requests that each load the same inventory       *)
(*                record and call reserveStock on their own copy;          *)
(*   AuthSpec     register / login / refreshToken / logout / logoutAll     *)
(*                against the user collection and the token store;         *)
(*   RegisterSpec register requests handled concurrently, each in the two  *)
(*                steps of its existence check and its create;             *)
(*   OrderSpec    one order document driven by updateStatus, cancel and    *)
(*                markAsPaid (src/server/src/controllers/                  *)
(*                auth.controller.ts, Order model);                        *)
(*   PriceSpec    an inventory record's discounts and calculateFinalPrice; *)
(*   RefreshSpec  refreshToken calls handled concurrently, each in the two *)
(*                steps of its checks and its issuing of the new pair.     *)
(* Each specification leaves the other parts' variables untouched.         *)
(***************************************************************************)
EXTENDS Integers, Sequences, FiniteSets, TLC

VARIABLES
    inv,        \* the in-memory inventory document (`this` in the methods)
    stored,     \* the persisted inventory document
    call,       \* the last inventory call: what was called, on what, with what outcome
    prev,       \* the inventory call before the last one
    rpc,        \* RaceSpec: each request's position
    rdoc,       \* RaceSpec: each request's own loaded copy of the document
    rcall,      \* RaceSpec: each request's reserveStock call (quantity, result)
    rbase,      \* RaceSpec: the persisted reservedStock before the requests arrived
    users,      \* AuthSpec: the user collection, by email
    refreshTokens,  \* AuthSpec: the token store, userId -> stored refresh token
    blacklist,  \* AuthSpec: the token store's blacklist of access tokens
    issued,     \* AuthSpec: every token pair generated so far
    expired,    \* AuthSpec: how many of the access / refresh tokens have expired
    reply,      \* AuthSpec: the last request and the response it got
    rotated,    \* AuthSpec: the refresh tokens a refreshToken call has succeeded with
    revoked,    \* AuthSpec: the refresh tokens issued to a user before a logout
    loggedOut,  \* AuthSpec: the unexpired access tokens a completed logout was given
    order,      \* OrderSpec: the order document
    ocall       \* OrderSpec: the last order call: what was called, on what, its outcome
                \*           that the user has not logged in again since

invVars == <<inv, stored, call, prev>>
raceVars == <<rpc, rdoc, rcall, rbase>>
authVars == <<users, refreshTokens, blacklist, issued, expired, reply, rotated, revoked,
              loggedOut>>
orderVars == <<order, ocall>>
vars == <<inv, stored, call, prev, rpc, rdoc, rcall, rbase,
          users, refreshTokens, blacklist, issued, expired, reply, rotated, revoked,
          loggedOut, order, ocall>>

(***************************************************************************)
(* Bounds                                                                  *)
(***************************************************************************)
\* largest currentStock the model lets a record hold
MaxStock == 4
\* largest quantity passed to a method
MaxQty == 3
\* number of concurrent requests in RaceSpec
NumRequests == 2

Max(a, b) == IF a >= b THEN a ELSE b
Min(a, b) == IF a <= b THEN a ELSE b

(***************************************************************************)
(* Inventory document                                                      *)
(***************************************************************************)
\* the two counters of IInventory the stock methods read and write
Doc(c, r) == [currentStock |-> c, reservedStock |-> r]

\* the schema's validators, run by save(): min 0 on both counters
Validates(doc) == doc.currentStock >= 0 /\ doc.reservedStock >= 0

\* this.save(): the document is validated; a valid document is written to the
\* store, an invalid one leaves the store as it was (save rejects). save()
\* sends the paths set on the document since it was loaded: in Spec the store
\* is written through this one document only, and in RaceSpec reservedStock is
\* the only path that ever changes, so what is written is the whole document.
save(persisted, doc) == IF Validates(doc) THEN doc ELSE persisted

\* Each method is a function of `this` and the quantity; it gives the document
\* as the method leaves it in memory, whether the method reached save(), and
\* what the caller gets: a return value or the message of the error thrown.
Outcome(doc, saves, result) == [this |-> doc, saves |-> saves, result |-> result]

\* updateStock with the sign of the adjustment lost
updateStock_subtracts(this, quantity) ==
    LET added == [this EXCEPT !.currentStock = @ - quantity]
    IN  IF added.currentStock < 0
        THEN Outcome(added, FALSE, "Insufficient stock")
        ELSE Outcome(added, TRUE, "ok")

updateStock(this, quantity) ==
    LET added == [this EXCEPT !.currentStock = @ + quantity]
    IN  IF added.currentStock < 0
        THEN Outcome(added, FALSE, "Insufficient stock")
        ELSE Outcome(added, TRUE, "ok")

\* reserveStock with a strict availability comparison
reserveStock_strict(this, quantity) ==
    LET availableStock == this.currentStock - this.reservedStock
    IN  IF availableStock > quantity
        THEN Outcome([this EXCEPT !.reservedStock = @ + quantity], TRUE, "true")
        ELSE Outcome(this, FALSE, "false")

reserveStock(this, quantity) ==
    LET availableStock == this.currentStock - this.reservedStock
    IN  IF availableStock >= quantity
        THEN Outcome([this EXCEPT !.reservedStock = @ + quantity], TRUE, "true")
        ELSE Outcome(this, FALSE, "false")

\* releaseReservedStock without the Math.max(0, ...) clamp
releaseReservedStock_unclamped(this, quantity) ==
    Outcome([this EXCEPT !.reservedStock = @ - quantity], TRUE, "ok")

\* releaseReservedStock that gives the stock away as confirmReservedStock does
releaseReservedStock_consumes(this, quantity) ==
    Outcome([this EXCEPT !.reservedStock = Max(0, @ - quantity),
                         !.currentStock = @ - quantity], TRUE, "ok")

releaseReservedStock(this, quantity) ==
    Outcome([this EXCEPT !.reservedStock = Max(0, @ - quantity)], TRUE, "ok")

\* confirmReservedStock that forgets to take the stock out of currentStock
confirmReservedStock_keepsCurrent(this, quantity) ==
    IF this.reservedStock >= quantity
    THEN Outcome([this EXCEPT !.reservedStock = @ - quantity], TRUE, "ok")
    ELSE Outcome(this, FALSE, "Insufficient reserved stock")

confirmReservedStock(this, quantity) ==
    IF this.reservedStock >= quantity
    THEN Outcome([this EXCEPT !.reservedStock = @ - quantity,
                              !.currentStock = @ - quantity], TRUE, "ok")
    ELSE Outcome(this, FALSE, "Insufficient reserved stock")

\* what the caller of a method sees once save() has run as well
Result(o) == IF o.saves /\ ~Validates(o.this) THEN "ValidationError" ELSE o.result

Thrown == {"Insufficient stock", "Insufficient reserved stock", "ValidationError"}

NoCall == [op |-> "none", quantity |-> 0, result |-> "ok",
           before |-> Doc(0, 0), storedBefore |-> Doc(0, 0)]

\* one method call on the in-memory document, save() included
Invoke(op, quantity, o) ==
    /\ inv' = o.this
    /\ stored' = IF o.saves THEN save(stored, o.this) ELSE stored
    /\ call' = [op |-> op, quantity |-> quantity, result |-> Result(o),
                before |-> inv, storedBefore |-> stored]
    /\ prev' = call
    /\ UNCHANGED <<raceVars, authVars, orderVars>>

UpdateStock ==
    \E quantity \in (-MaxQty .. MaxQty) \ {0} :
        /\ inv.currentStock + quantity <= MaxStock
        /\ inv.currentStock + quantity >= -MaxStock
        /\ Invoke("updateStock", quantity, updateStock(inv, quantity))

ReserveStock ==
    \E quantity \in 0 .. MaxQty :
        Invoke("reserveStock", quantity, reserveStock(inv, quantity))

ReleaseReservedStock ==
    \E quantity \in 0 .. MaxQty :
        Invoke("releaseReservedStock", quantity, releaseReservedStock(inv, quantity))

ConfirmReservedStock ==
    \E quantity \in 0 .. MaxQty :
        /\ inv.currentStock - quantity >= -MaxStock
        /\ Invoke("confirmReservedStock", quantity, confirmReservedStock(inv, quantity))

\* a later request loads the record afresh
FindInventory ==
    /\ inv' = stored
    /\ call' = [NoCall EXCEPT !.op = "findOne", !.before = inv, !.storedBefore = stored]
    /\ prev' = call
    /\ UNCHANGED <<stored>>
    /\ UNCHANGED <<raceVars, authVars, orderVars>>

(***************************************************************************)
(* Auth service: users, tokens, token store                                *)
(***************************************************************************)
\* number of token pairs the model lets the server generate
MaxIssued == 3

Emails == {"a@mart.in", "b@mart.in"}
Passwords == {"secret1", "secret2"}
Phones == {"+911", "+912"}
UserTypes == {"CUSTOMER", "RETAILER", "WHOLESALER"}
\* number of documents the user collection can hold
MaxUsers == 3
UserIds == 1 .. MaxUsers

NoUser == [exists |-> FALSE]
NoToken == [kind |-> "none"]
NoTokens == [accessToken |-> NoToken, refreshToken |-> NoToken]

\* the pre-save hook stores bcrypt's hash of the password, and
\* comparePassword checks a candidate against the stored hash
Hash(password) == <<"bcrypt", password>>
comparePassword(user, candidatePassword) == Hash(candidatePassword) = user.password

\* a document of the user collection
UserDoc(id, email, phone, password, userType, isActive) ==
    [exists |-> TRUE, id |-> id, email |-> email, phone |-> phone,
     password |-> password, userType |-> userType, isActive |-> isActive]

\* User.findOne({ email }) and User.findById(userId)
findOne(us, email) ==
    IF \E u \in UserIds : us[u] # NoUser /\ us[u].email = email
    THEN us[CHOOSE u \in UserIds : us[u] # NoUser /\ us[u].email = email]
    ELSE NoUser
findById(us, userId) == IF userId \in UserIds THEN us[userId] ELSE NoUser

\* the paths the user schema requires
RequiredPaths == {"email", "phone", "password", "userType", "profile"}

\* create without the schema's validation and without its unique indexes
create_unchecked(us, doc) ==
    LET id == CHOOSE u \in UserIds : us[u] = NoUser
        user == UserDoc(id, doc.email, doc.profile.phone, Hash(doc.password),
                        doc.userType, doc.isActive)
    IN  [error |-> "", users |-> [us EXCEPT ![id] = user], user |-> user]

\* create that does not require the phone path and takes the profile's phone
create_phoneOptional(us, doc) ==
    IF (RequiredPaths \ {"phone"}) \ DOMAIN doc # {}
    THEN [error |-> "ValidationError", users |-> us, user |-> NoUser]
    ELSE IF \E u \in UserIds : us[u] # NoUser /\ us[u].email = doc.email
    THEN [error |-> "DuplicateKey", users |-> us, user |-> NoUser]
    ELSE LET id == CHOOSE u \in UserIds : us[u] = NoUser
             user == UserDoc(id, doc.email, doc.profile.phone, Hash(doc.password),
                             doc.userType, doc.isActive)
         IN  [error |-> "", users |-> [us EXCEPT ![id] = user], user |-> user]

\* Customer.create / Retailer.create / Wholesaler.create: the document is
\* validated against the schema (required paths), the unique indexes on email
\* and phone reject a duplicate, the pre-save hook hashes the password
create(us, doc) ==
    IF RequiredPaths \ DOMAIN doc # {}
    THEN [error |-> "ValidationError", users |-> us, user |-> NoUser]
    ELSE IF \E u \in UserIds :
                us[u] # NoUser /\ (us[u].email = doc.email \/ us[u].phone = doc.phone)
    THEN [error |-> "DuplicateKey", users |-> us, user |-> NoUser]
    ELSE LET id == CHOOSE u \in UserIds : us[u] = NoUser
             user == UserDoc(id, doc.email, doc.phone, Hash(doc.password),
                             doc.userType, doc.isActive)
         IN  [error |-> "", users |-> [us EXCEPT ![id] = user], user |-> user]

\* jwtService.generateTokenPair: a new access token and a new refresh token,
\* signed, carrying userId, email and role. Each pair is a new one (serial);
\* every token has a fixed lifetime, the access token the shorter one, so the
\* tokens of a kind expire in the order of their serials.
generateTokenPair(userId, email, userType) ==
    LET token(kind) ==
            [kind |-> kind, userId |-> userId, email |-> email, userType |-> userType,
             serial |-> Cardinality(issued) + 1, signed |-> TRUE]
    IN  [accessToken |-> token("access"), refreshToken |-> token("refresh")]

\* a refresh token the server never signed
Forged ==
    [kind |-> "refresh", userId |-> 1, email |-> "a@mart.in", userType |-> "CUSTOMER",
     serial |-> MaxIssued + 1, signed |-> FALSE]

\* a token's expiry has passed
Expired(token) == token.serial <= expired[token.kind]

\* jwtService.verifyRefreshToken: signature and expiry
verifyRefreshToken(token) ==
    token.kind = "refresh" /\ token.signed /\ ~Expired(token)

\* the token store: one refresh token per user, and the blacklist
getRefreshToken(rts, userId) == rts[userId]
storeRefreshToken(rts, userId, token) == [rts EXCEPT ![userId] = token]
deleteRefreshToken(rts, userId) == [rts EXCEPT ![userId] = NoToken]
deleteAllRefreshTokens(rts, userId) == [rts EXCEPT ![userId] = NoToken]
blacklistToken(bl, token) == bl \cup {token}

\* What a service method gives: the message of the error thrown ("" when it
\* returns), the token pair returned, the user concerned, and the user
\* collection, token store and blacklist as the method leaves them.
AuthOutcome(error, tokens, user, us, rts, bl) ==
    [error |-> error, tokens |-> tokens, user |-> user,
     users |-> us, refreshTokens |-> rts, blacklist |-> bl]

Throw(message) == AuthOutcome(message, NoTokens, NoUser, users, refreshTokens, blacklist)

\* generate the pair, store its refresh token, return the pair
issueTokens(us, user) ==
    LET tokens == generateTokenPair(user.id, user.email, user.userType)
    IN  AuthOutcome("", tokens, user, us,
                    storeRefreshToken(refreshTokens, user.id, tokens.refreshToken),
                    blacklist)

\* create the user, then issue its tokens
createUser(doc) ==
    LET created == create(users, doc)
    IN  IF created.error # ""
        THEN Throw(created.error)
        ELSE issueTokens(created.users, created.user)

\* register's existence check that finds no user whatever the email
existingUser_none(data) == NoUser

\* register's existence check: User.findOne({ email: data.email })
existingUser(data) == findOne(users, data.email)

\* createAccount without the role-specific field checks
createAccount_unchecked(data) ==
    createUser([email |-> data.email, password |-> data.password,
                userType |-> data.userType, profile |-> data.profile,
                isActive |-> TRUE, businessName |-> data.businessName,
                gstin |-> data.gstin, bankDetails |-> data.bankDetails])

\* register after the existence check: the role's fields are checked, the
\* user is created by the role's model, and its tokens are issued and stored
createAccount(data) ==
    LET baseData == [email |-> data.email, password |-> data.password,
                     userType |-> data.userType, profile |-> data.profile,
                     isActive |-> TRUE]
    IN  CASE data.userType = "CUSTOMER" -> createUser(baseData)
          [] data.userType = "RETAILER" ->
               IF data.businessName = ""
               THEN Throw("Business name is required for retailers")
               ELSE createUser(baseData @@ [businessName |-> data.businessName,
                                            gstin |-> data.gstin,
                                            store |-> data.businessName])
          [] data.userType = "WHOLESALER" ->
               IF data.businessName = "" \/ data.gstin = ""
               THEN Throw("Business name and GSTIN are required for wholesalers")
               ELSE IF data.bankDetails = ""
               THEN Throw("Bank details are required for wholesalers")
               ELSE createUser(baseData @@ [businessName |-> data.businessName,
                                            gstin |-> data.gstin,
                                            bankDetails |-> data.bankDetails,
                                            minimumOrderValue |-> 1000])
          [] OTHER -> Throw("Invalid user type")

register(data) ==
    IF existingUser(data) # NoUser
    THEN Throw("User with this email already exists")
    ELSE createAccount(data)

\* register's outcome when jwtService.storeRefreshToken throws: what register
\* did before the store stays done, nothing is stored, the error is thrown on.
\* A register that threw before reaching the store is not affected.
storeFailed(o) ==
    IF o.error # ""
    THEN o
    ELSE AuthOutcome("Token store unavailable", NoTokens, NoUser, o.users,
                     refreshTokens, blacklist)

\* login that tells an unknown email from a wrong password
login_revealsUnknownEmail(data) ==
    LET user == findOne(users, data.email)
    IN  IF user = NoUser
        THEN Throw("User not found")
        ELSE IF ~user.isActive
        THEN Throw("Account is deactivated. Please contact support.")
        ELSE IF ~comparePassword(user, data.password)
        THEN Throw("Invalid email or password")
        ELSE issueTokens(users, user)

\* login that verifies the password before it looks at isActive
login_passwordFirst(data) ==
    LET user == findOne(users, data.email)
    IN  IF user = NoUser
        THEN Throw("Invalid email or password")
        ELSE IF ~comparePassword(user, data.password)
        THEN Throw("Invalid email or password")
        ELSE IF ~user.isActive
        THEN Throw("Account is deactivated. Please contact support.")
        ELSE issueTokens(users, user)

\* login that returns a new pair and stores its refresh token only when no token
\* is stored for the user
login_keepsStoredToken(data) ==
    LET user == findOne(users, data.email)
    IN  IF user = NoUser
        THEN Throw("Invalid email or password")
        ELSE IF ~user.isActive
        THEN Throw("Account is deactivated. Please contact support.")
        ELSE IF ~comparePassword(user, data.password)
        THEN Throw("Invalid email or password")
        ELSE IF getRefreshToken(refreshTokens, user.id) = NoToken
        THEN issueTokens(users, user)
        ELSE AuthOutcome("", generateTokenPair(user.id, user.email, user.userType),
                         user, users, refreshTokens, blacklist)

login(data) ==
    LET user == findOne(users, data.email)
    IN  IF user = NoUser
        THEN Throw("Invalid email or password")
        ELSE IF ~user.isActive
        THEN Throw("Account is deactivated. Please contact support.")
        ELSE IF ~comparePassword(user, data.password)
        THEN Throw("Invalid email or password")
        ELSE issueTokens(users, user)

\* refreshToken that returns a new pair and leaves the presented token stored
refreshToken_notRotated(token) ==
    IF ~verifyRefreshToken(token)
    THEN Throw("InvalidToken")
    ELSE LET storedToken == getRefreshToken(refreshTokens, token.userId)
         IN  IF storedToken = NoToken \/ storedToken # token
             THEN Throw("Invalid refresh token")
             ELSE LET user == findById(users, token.userId)
                  IN  IF user = NoUser \/ ~user.isActive
                      THEN Throw("User not found or inactive")
                      ELSE AuthOutcome("", generateTokenPair(user.id, user.email,
                                                             user.userType),
                                       user, users, refreshTokens, blacklist)

\* refreshToken that only checks that some refresh token is stored for the user
refreshToken_anyStored(token) ==
    IF ~verifyRefreshToken(token)
    THEN Throw("InvalidToken")
    ELSE LET storedToken == getRefreshToken(refreshTokens, token.userId)
         IN  IF storedToken = NoToken
             THEN Throw("Invalid refresh token")
             ELSE LET user == findById(users, token.userId)
                  IN  IF user = NoUser \/ ~user.isActive
                      THEN Throw("User not found or inactive")
                      ELSE issueTokens(users, user)

\* refreshToken that does not look at the user's isActive flag
refreshToken_ignoresActive(token) ==
    IF ~verifyRefreshToken(token)
    THEN Throw("InvalidToken")
    ELSE LET storedToken == getRefreshToken(refreshTokens, token.userId)
         IN  IF storedToken = NoToken \/ storedToken # token
             THEN Throw("Invalid refresh token")
             ELSE LET user == findById(users, token.userId)
                  IN  IF user = NoUser
                      THEN Throw("User not found or inactive")
                      ELSE issueTokens(users, user)

refreshToken(token) ==
    IF ~verifyRefreshToken(token)
    THEN Throw("InvalidToken")
    ELSE LET storedToken == getRefreshToken(refreshTokens, token.userId)
         IN  IF storedToken = NoToken \/ storedToken # token
             THEN Throw("Invalid refresh token")
             ELSE LET user == findById(users, token.userId)
                  IN  IF user = NoUser \/ ~user.isActive
                      THEN Throw("User not found or inactive")
                      ELSE issueTokens(users, user)

\* logout that blacklists the access token and leaves the refresh token stored
logout_keepsRefreshToken(userId, accessToken) ==
    AuthOutcome("", NoTokens, findById(users, userId), users,
                refreshTokens, blacklistToken(blacklist, accessToken))

\* logout that deletes the refresh token and does not blacklist the access token
logout_notBlacklisted(userId, accessToken) ==
    AuthOutcome("", NoTokens, findById(users, userId), users,
                deleteRefreshToken(refreshTokens, userId), blacklist)

logout(userId, accessToken) ==
    AuthOutcome("", NoTokens, findById(users, userId), users,
                deleteRefreshToken(refreshTokens, userId),
                blacklistToken(blacklist, accessToken))

logoutAll(userId) ==
    AuthOutcome("", NoTokens, findById(users, userId), users,
                deleteAllRefreshTokens(refreshTokens, userId), blacklist)

\* the authenticate middleware of the protected routes: a signed, unexpired
\* access token that is not blacklisted, of a user that exists
authenticate(token) ==
    /\ token.kind = "access" /\ token.signed /\ ~Expired(token)
    /\ token \notin blacklist
    /\ findById(users, token.userId) # NoUser

\* the message of the authenticate middleware's 401 response
Unauthenticated == "Authentication failed"

\* the getCurrentUser controller: answers with the user the middleware attached
getCurrentUser(userId) ==
    IF findById(users, userId) = NoUser
    THEN Throw("Not authenticated")
    ELSE AuthOutcome("", NoTokens, findById(users, userId), users, refreshTokens, blacklist)

\* the controllers' status codes
registerStatus(error) ==
    IF error = "" THEN 201
    ELSE IF error = "User with this email already exists" THEN 409 ELSE 400
loginStatus(error) ==
    IF error = "" THEN 200
    ELSE IF error = "Account is deactivated. Please contact support." THEN 403 ELSE 401
refreshTokenStatus(error) == IF error = "" THEN 200 ELSE 401
logoutStatus(error) == IF error = "" THEN 200 ELSE 500
getCurrentUserStatus(error) ==
    IF error = "" THEN 200 ELSE IF error = "Not authenticated" THEN 401 ELSE 500

IssuedRefreshTokens == {pair.refreshToken : pair \in issued}
IssuedAccessTokens == {pair.accessToken : pair \in issued}
TokensOf(userId) == {t \in IssuedRefreshTokens : t.userId = userId}

NoReply ==
    [op |-> "none", email |-> "", password |-> "", presented |-> NoToken,
     error |-> "", status |-> 0,
     tokens |-> NoTokens, user |-> NoUser, storedBefore |-> [u \in UserIds |-> NoToken],
     reused |-> FALSE, wasRevoked |-> FALSE, wasLoggedOut |-> FALSE]

\* a request handled from its arrival to its response: the service's effects
\* take place and the response is recorded
Respond(op, email, password, presented, o, status) ==
    /\ (o.tokens # NoTokens) => Cardinality(issued) < MaxIssued
    /\ users' = o.users
    /\ refreshTokens' = o.refreshTokens
    /\ blacklist' = o.blacklist
    /\ issued' = IF o.tokens # NoTokens THEN issued \cup {o.tokens} ELSE issued
    /\ reply' = [op |-> op, email |-> email, password |-> password,
                 presented |-> presented,
                 error |-> o.error, status |-> status, tokens |-> o.tokens,
                 user |-> o.user, storedBefore |-> refreshTokens,
                 reused |-> presented \in rotated,
                 wasRevoked |-> presented \in revoked,
                 wasLoggedOut |-> presented \in loggedOut]
    /\ rotated' = IF op = "refreshToken" /\ o.error = ""
                  THEN rotated \cup {presented} ELSE rotated
    /\ revoked' = IF op \in {"logout", "logoutAll"} /\ o.error = ""
                  THEN revoked \cup TokensOf(o.user.id)
                  ELSE IF op \in {"register", "login"} /\ o.error = ""
                  THEN revoked \ TokensOf(o.user.id)
                  ELSE revoked
    /\ loggedOut' = IF op = "logout" /\ o.error = ""
                    THEN loggedOut \cup {presented} ELSE loggedOut
    /\ UNCHANGED <<expired, invVars, raceVars, orderVars>>

\* request bodies: every role, with and without the role's business fields
RegisterData ==
    LET body(types, names, gstins, banks) ==
            [email : Emails, password : {"secret1"}, userType : types,
             profile : [name : {"N"}, phone : {"+913"}],
             businessName : names, gstin : gstins, bankDetails : banks]
    IN  body({"CUSTOMER", "ADMIN"}, {""}, {""}, {""})
            \cup body({"RETAILER"}, {"", "Shop"}, {"GSTIN"}, {""})
            \cup body({"WHOLESALER"}, {"", "Shop"}, {"", "GSTIN"}, {"", "Bank"})

Register ==
    \E data \in RegisterData, storeFails \in BOOLEAN :
        LET o == IF storeFails THEN storeFailed(register(data)) ELSE register(data)
        IN  Respond("register", data.email, data.password, NoToken, o, registerStatus(o.error))

Login ==
    \E data \in [email : Emails, password : Passwords] :
        LET o == login(data)
        IN  Respond("login", data.email, data.password, NoToken, o, loginStatus(o.error))

RefreshToken ==
    \E token \in IssuedRefreshTokens \cup IssuedAccessTokens \cup {Forged} :
        LET o == refreshToken(token)
        IN  Respond("refreshToken", token.email, "", token, o, refreshTokenStatus(o.error))

\* a protected route: the authenticate middleware runs first and answers 401
\* itself when it refuses the token; otherwise the controller runs as the
\* token's user
Protected(route, token, o, status) ==
    IF authenticate(token)
    THEN Respond(route, token.email, "", token, o, status)
    ELSE Respond(route, token.email, "", token, Throw(Unauthenticated), 401)

GetCurrentUser ==
    \E token \in IssuedAccessTokens :
        LET o == getCurrentUser(token.userId)
        IN  Protected("me", token, o, getCurrentUserStatus(o.error))

Logout ==
    \E token \in IssuedAccessTokens :
        LET o == logout(token.userId, token)
        IN  Protected("logout", token, o, logoutStatus(o.error))

LogoutAll ==
    \E token \in IssuedAccessTokens :
        LET o == logoutAll(token.userId)
        IN  Protected("logoutAll", token, o, logoutStatus(o.error))

\* an account is deactivated or reactivated
SetActive ==
    \E u \in UserIds : \E active \in BOOLEAN :
        /\ users[u] # NoUser
        /\ users[u].isActive # active
        /\ users' = [users EXCEPT ![u].isActive = active]
        /\ reply' = NoReply
        /\ UNCHANGED <<refreshTokens, blacklist, issued, expired, rotated, revoked,
                       loggedOut>>
        /\ UNCHANGED <<invVars, raceVars, orderVars>>

\* time passes: the oldest live token of a kind reaches its expiry, an access
\* token before the refresh token of its pair; a blacklist entry lasts until
\* its token's expiry
Tick ==
    \E kind \in {"access", "refresh"} :
        /\ expired[kind] < Cardinality(issued)
        /\ kind = "refresh" => expired["refresh"] < expired["access"]
        /\ expired' = [expired EXCEPT ![kind] = @ + 1]
        /\ blacklist' = {t \in blacklist : t.serial > expired'["access"]}
        /\ loggedOut' = {t \in loggedOut : t.serial > expired'["access"]}
        /\ reply' = NoReply
        /\ UNCHANGED <<users, refreshTokens, issued, rotated, revoked>>
        /\ UNCHANGED <<invVars, raceVars, orderVars>>

\* no auth request has been made: an empty collection and an empty token store
AuthIdle ==
    /\ users = [u \in UserIds |-> NoUser]
    /\ refreshTokens = [u \in UserIds |-> NoToken]
    /\ blacklist = {}
    /\ issued = {}
    /\ expired = [access |-> 0, refresh |-> 0]
    /\ reply = NoReply
    /\ rotated = {}
    /\ revoked = {}
    /\ loggedOut = {}

(***************************************************************************)
(* Inventory pricing: discounts and calculateFinalPrice                    *)
(***************************************************************************)
\* number of discounts the model lets a record hold
MaxDiscounts == 2

\* Amounts of money are held as whole multiples of 1/Scale. The percentages
\* of the model's discounts are multiples of 10, so each discount of the loop
\* needs one more decimal place and every amount it computes is a whole
\* number of these units.
Scale == 10 ^ MaxDiscounts
Money(amount) == amount * Scale

\* an entry of IInventory.discounts; value is a percentage for PERCENTAGE and
\* an amount of money otherwise
Discount(type, value, minPurchase, maxDiscount, isActive) ==
    [type |-> type, value |-> value, minPurchase |-> minPurchase,
     maxDiscount |-> maxDiscount, validFrom |-> 1, validUntil |-> 2,
     isActive |-> isActive]

\* the inventory document with the paths calculateFinalPrice reads
PricedDoc(sellingPrice, discounts) ==
    [currentStock |-> 0, reservedStock |-> 0, sellingPrice |-> sellingPrice,
     discounts |-> discounts]

\* the filter of calculateFinalPrice: active, and now within validFrom..validUntil
isValidAt(d, now) == d.isActive /\ d.validFrom <= now /\ d.validUntil >= now

\* what one discount takes off the running price
discountAmount(finalPrice, discount) ==
    LET amount == IF discount.type = "PERCENTAGE"
                  THEN (finalPrice * discount.value) \div 100
                  ELSE IF discount.type = "FIXED_AMOUNT"
                  THEN Money(discount.value)
                  ELSE 0
    IN  IF discount.maxDiscount > 0
        THEN Min(amount, Money(discount.maxDiscount))
        ELSE amount

\* the loop over the active discounts: the running finalPrice after each of them
RECURSIVE applyDiscounts(_, _)
applyDiscounts(finalPrice, activeDiscounts) ==
    IF activeDiscounts = <<>>
    THEN <<>>
    ELSE LET discount == Head(activeDiscounts)
             next == IF finalPrice >= Money(discount.minPurchase)
                     THEN finalPrice - discountAmount(finalPrice, discount)
                     ELSE finalPrice
         IN  <<next>> \o applyDiscounts(next, Tail(activeDiscounts))

\* calculateFinalPrice that ignores maxDiscount
calculateFinalPrice_uncapped(this, quantity, now) ==
    LET activeDiscounts == SelectSeq(this.discounts, LAMBDA d : isValidAt(d, now))
        uncapped == [i \in 1 .. Len(activeDiscounts) |->
                        [activeDiscounts[i] EXCEPT !.maxDiscount = 0]]
        steps == <<Money(this.sellingPrice) * quantity>>
                     \o applyDiscounts(Money(this.sellingPrice) * quantity, uncapped)
    IN  [result |-> Max(0, steps[Len(steps)]), activeDiscounts |-> activeDiscounts,
         steps |-> steps]

\* calculateFinalPrice that applies a discount whatever its minPurchase
calculateFinalPrice_noMinPurchase(this, quantity, now) ==
    LET activeDiscounts == SelectSeq(this.discounts, LAMBDA d : isValidAt(d, now))
        unconditional == [i \in 1 .. Len(activeDiscounts) |->
                             [activeDiscounts[i] EXCEPT !.minPurchase = 0]]
        steps == <<Money(this.sellingPrice) * quantity>>
                     \o applyDiscounts(Money(this.sellingPrice) * quantity, unconditional)
    IN  [result |-> Max(0, steps[Len(steps)]), activeDiscounts |-> activeDiscounts,
         steps |-> steps]

\* calculateFinalPrice(quantity) evaluated at time now: the price returned, the
\* discounts that passed the filter, and the running price before the loop and
\* after each of them
calculateFinalPrice(this, quantity, now) ==
    LET activeDiscounts == SelectSeq(this.discounts, LAMBDA d : isValidAt(d, now))
        steps == <<Money(this.sellingPrice) * quantity>>
                     \o applyDiscounts(Money(this.sellingPrice) * quantity, activeDiscounts)
    IN  [result |-> Max(0, steps[Len(steps)]), activeDiscounts |-> activeDiscounts,
         steps |-> steps]

\* the discounts a seller puts on a record
Discounts ==
    {Discount("PERCENTAGE", v, m, x, TRUE) : v \in {10, 150}, m \in {0, 150}, x \in {0, 15}}
        \cup {Discount("FIXED_AMOUNT", v, 0, x, TRUE) : v \in {50, 300}, x \in {0, 15}}
        \cup {Discount("BUY_ONE_GET_ONE", 10, 0, 15, TRUE),
              Discount("FREE_SHIPPING", 10, 0, 0, TRUE),
              Discount("PERCENTAGE", 10, 0, 0, FALSE)}

NoPriceCall ==
    [op |-> "none", quantity |-> 0, now |-> 0, result |-> 0,
     activeDiscounts |-> <<>>, steps |-> <<>>]

\* addDiscount(discount): pushed on the list and saved
AddDiscount ==
    /\ Len(inv.discounts) < MaxDiscounts
    /\ \E discount \in Discounts :
        /\ inv' = [inv EXCEPT !.discounts = Append(@, discount)]
        /\ stored' = inv'
    /\ call' = [NoPriceCall EXCEPT !.op = "addDiscount"]
    /\ UNCHANGED <<prev, raceVars, authVars, orderVars>>

\* calculateFinalPrice(quantity) called at some time
CalculateFinalPrice ==
    /\ \E quantity \in 1 .. MaxQty : \E now \in 0 .. 3 :
        LET o == calculateFinalPrice(inv, quantity, now)
        IN  call' = [op |-> "calculateFinalPrice", quantity |-> quantity, now |-> now,
                     result |-> o.result, activeDiscounts |-> o.activeDiscounts,
                     steps |-> o.steps]
    /\ UNCHANGED <<inv, stored, prev, raceVars, authVars, orderVars>>

(***************************************************************************)
(* Order document and its methods                                          *)
(***************************************************************************)
\* number of entries the model lets an order's status history hold
MaxHistory == 4

OrderStatus ==
    {"PENDING", "CONFIRMED", "PROCESSING", "SHIPPED", "OUT_FOR_DELIVERY",
     "DELIVERED", "CANCELLED", "RETURNED"}
PaymentStatus ==
    {"PENDING", "PROCESSING", "COMPLETED", "FAILED", "REFUNDED", "CANCELLED"}

\* an entry of trackingInfo.statusHistory (its timestamp is its position)
HistoryEntry(status, notes) == [status |-> status, notes |-> notes]

\* a new order, by the schema's defaults
NewOrder ==
    [status |-> "PENDING", paymentStatus |-> "PENDING",
     trackingInfo |-> [currentStatus |-> "PENDING",
                       statusHistory |-> <<HistoryEntry("PENDING", "")>>]]

\* what an order method gives: the document after the call and the message of
\* the error thrown ("" when it returns)
OrderOutcome(this, error) == [this |-> this, error |-> error]

\* updateStatus that overwrites the last history entry instead of pushing one
updateStatus_overwritesLast(this, newStatus, notes) ==
    OrderOutcome(
        [this EXCEPT !.status = newStatus,
                     !.trackingInfo.currentStatus = newStatus,
                     !.trackingInfo.statusHistory =
                         [@ EXCEPT ![Len(@)] = HistoryEntry(newStatus, notes)]],
        "")

updateStatus(this, newStatus, notes) ==
    OrderOutcome(
        [this EXCEPT !.status = newStatus,
                     !.trackingInfo.currentStatus = newStatus,
                     !.trackingInfo.statusHistory =
                         Append(@, HistoryEntry(newStatus, notes))],
        "")

\* cancel that leaves paymentStatus as it is
cancel_keepsPayment(this, reason) ==
    IF this.status = "DELIVERED"
    THEN OrderOutcome(this, "Cannot cancel delivered order")
    ELSE updateStatus(this, "CANCELLED", reason)

cancel(this, reason) ==
    IF this.status = "DELIVERED"
    THEN OrderOutcome(this, "Cannot cancel delivered order")
    ELSE LET updated == updateStatus(this, "CANCELLED", reason).this
         IN  OrderOutcome([updated EXCEPT !.paymentStatus = "CANCELLED"], "")

markAsPaid(this) == OrderOutcome([this EXCEPT !.paymentStatus = "COMPLETED"], "")

\* the canCancel virtual
canCancel(this) ==
    this.status \notin {"DELIVERED", "CANCELLED", "RETURNED"}

NoOrderCall == [op |-> "none", newStatus |-> "", notes |-> "", before |-> NewOrder,
                error |-> ""]

\* a method is called on the order document; the call is recorded
InvokeOrder(op, newStatus, notes, o) ==
    /\ Len(o.this.trackingInfo.statusHistory) <= MaxHistory
    /\ order' = o.this
    /\ ocall' = [op |-> op, newStatus |-> newStatus, notes |-> notes, before |-> order,
                 error |-> o.error]
    /\ UNCHANGED <<invVars, raceVars, authVars>>

UpdateStatus ==
    \E newStatus \in OrderStatus :
        InvokeOrder("updateStatus", newStatus, "", updateStatus(order, newStatus, ""))

Cancel ==
    \E reason \in {"", "changed my mind"} :
        InvokeOrder("cancel", "CANCELLED", reason, cancel(order, reason))

MarkAsPaid == InvokeOrder("markAsPaid", "", "", markAsPaid(order))

OrderIdle ==
    /\ order = NewOrder
    /\ ocall = NoOrderCall

RaceIdle ==
    /\ rpc = [r \in 1 .. NumRequests |-> "idle"]
    /\ rdoc = [r \in 1 .. NumRequests |-> Doc(0, 0)]
    /\ rcall = [r \in 1 .. NumRequests |-> [quantity |-> 0, result |-> "none"]]
    /\ rbase = 0

Init ==
    /\ \E c \in 0 .. MaxStock : \E r \in 0 .. c : stored = Doc(c, r)
    /\ inv = stored
    /\ call = NoCall
    /\ prev = NoCall
    /\ RaceIdle
    /\ AuthIdle
    /\ OrderIdle

Next ==
    \/ UpdateStock
    \/ ReserveStock
    \/ ReleaseReservedStock
    \/ ConfirmReservedStock
    \/ FindInventory

Spec == Init /\ [][Next]_vars

(***************************************************************************)
(* RaceSpec: concurrent reservations on one record                         *)
(***************************************************************************)
Requests == 1 .. NumRequests

\* a request loads the record: its own in-memory copy of the persisted document
LoadInventory(r) ==
    /\ rpc[r] = "idle"
    /\ rdoc' = [rdoc EXCEPT ![r] = stored]
    /\ rpc' = [rpc EXCEPT ![r] = "loaded"]
    /\ UNCHANGED <<stored, rcall, rbase>>
    /\ UNCHANGED <<inv, call, prev, authVars, orderVars>>

\* the request calls reserveStock on its copy: the check and the increment run
\* on the copy, and save() writes the copy's reservedStock to the store
RequestReserveStock(r) ==
    /\ rpc[r] = "loaded"
    /\ \E quantity \in 1 .. MaxQty :
        LET o == reserveStock(rdoc[r], quantity)
        IN  /\ rdoc' = [rdoc EXCEPT ![r] = o.this]
            /\ stored' = IF o.saves THEN save(stored, o.this) ELSE stored
            /\ rcall' = [rcall EXCEPT ![r] = [quantity |-> quantity, result |-> Result(o)]]
    /\ rpc' = [rpc EXCEPT ![r] = "done"]
    /\ UNCHANGED <<inv, call, prev, rbase, authVars, orderVars>>

RaceInit ==
    /\ \E c \in 0 .. MaxStock : \E r \in 0 .. c : stored = Doc(c, r)
    /\ inv = stored
    /\ call = NoCall
    /\ prev = NoCall
    /\ rpc = [r \in Requests |-> "idle"]
    /\ rdoc = [r \in Requests |-> Doc(0, 0)]
    /\ rcall = [r \in Requests |-> [quantity |-> 0, result |-> "none"]]
    /\ rbase = stored.reservedStock
    /\ AuthIdle
    /\ OrderIdle

RaceNext ==
    \E r \in Requests :
        \/ LoadInventory(r)
        \/ RequestReserveStock(r)

RaceSpec == RaceInit /\ [][RaceNext]_vars

\* the quantities of the reservations that returned true, requests 1..n
RECURSIVE Granted(_)
Granted(n) ==
    IF n = 0 THEN 0
    ELSE Granted(n - 1) + (IF rcall[n].result = "true" THEN rcall[n].quantity ELSE 0)

\* C2: when requests call reserveStock on the same record concurrently, the
\* availability check and the increment take effect as one update: once all
\* have returned, the persisted reservedStock does not exceed currentStock and
\* counts every reservation that returned true.
C2_ReserveIsOneUpdate ==
    (\A r \in Requests : rpc[r] = "done") =>
        /\ stored.reservedStock <= stored.currentStock
        /\ stored.reservedStock = rbase + Granted(NumRequests)

(***************************************************************************)
(* AuthSpec: the auth requests, one at a time                              *)
(***************************************************************************)
\* user collections the schema allows (unique ids, emails and phones), the
\* passwords hashed as the pre-save hook leaves them: one registered user and
\* one unknown email, or two registered users
InitialUsers ==
    LET a == UserDoc(1, "a@mart.in", "+911", Hash("secret1"), "CUSTOMER", TRUE)
        b == UserDoc(2, "b@mart.in", "+912", Hash("secret2"), "RETAILER", TRUE)
    IN  { [u \in UserIds |-> IF u = 1 THEN a ELSE NoUser],
          [u \in UserIds |-> IF u = 1 THEN a ELSE IF u = 2 THEN b ELSE NoUser] }

AuthInit ==
    /\ stored = Doc(0, 0)
    /\ inv = stored
    /\ call = NoCall
    /\ prev = NoCall
    /\ RaceIdle
    /\ users \in InitialUsers
    /\ refreshTokens = [u \in UserIds |-> NoToken]
    /\ blacklist = {}
    /\ issued = {}
    /\ expired = [access |-> 0, refresh |-> 0]
    /\ reply = NoReply
    /\ rotated = {}
    /\ revoked = {}
    /\ loggedOut = {}
    /\ OrderIdle

AuthNext ==
    \/ Register
    \/ Login
    \/ RefreshToken
    \/ GetCurrentUser
    \/ Logout
    \/ LogoutAll
    \/ SetActive
    \/ Tick

AuthSpec == AuthInit /\ [][AuthNext]_vars

(***************************************************************************)
(* RegisterSpec: concurrent register requests                              *)
(***************************************************************************)
\* A register request's record: its body, whether a persisted user had its
\* email when findOne ran, whether another request with the same email had
\* or phone had passed findOne and not yet created its user when this one created, its
\* response, and the collection and token store before and after its last step.
Registration(data, existed, racing, o, status) ==
    [data |-> data, existed |-> existed, racing |-> racing,
     error |-> o.error, status |-> status, tokens |-> o.tokens,
     usersBefore |-> users, usersAfter |-> o.users,
     storedBefore |-> refreshTokens, storedAfter |-> o.refreshTokens]

NoRegistration == [data |-> [email |-> ""], existed |-> FALSE, racing |-> FALSE]

EmailPersisted(email) == \E u \in UserIds : users[u] # NoUser /\ users[u].email = email

\* register up to findOne: an existing user ends the request with the
\* duplicate-email error, otherwise the request goes on to create the user
RegisterFindOne(r) ==
    /\ rpc[r] = "idle"
    /\ \E data \in RegisterData :
        IF existingUser(data) # NoUser
        THEN LET o == Throw("User with this email already exists")
             IN  /\ rpc' = [rpc EXCEPT ![r] = "done"]
                 /\ rcall' = [rcall EXCEPT ![r] =
                        Registration(data, EmailPersisted(data.email), FALSE, o,
                                     registerStatus(o.error))]
        ELSE /\ rpc' = [rpc EXCEPT ![r] = "checked"]
             /\ rcall' = [rcall EXCEPT ![r] =
                    [data |-> data, existed |-> EmailPersisted(data.email),
                     racing |-> FALSE]]
    /\ UNCHANGED <<rdoc, rbase, invVars, authVars, orderVars>>

\* register from the role switch on: the user is created, its tokens issued
\* and stored (or the store fails), and the response sent
RegisterCreate(r) ==
    /\ rpc[r] = "checked"
    /\ \E storeFails \in BOOLEAN :
       LET data == rcall[r].data
           o == IF storeFails THEN storeFailed(createAccount(data))
                ELSE createAccount(data)
           racing == \E q \in Requests \ {r} :
                         /\ rpc[q] = "checked"
                         /\ \/ rcall[q].data.email = data.email
                            \/ rcall[q].data.profile.phone = data.profile.phone
       IN  /\ rcall' = [rcall EXCEPT ![r] =
                  Registration(data, rcall[r].existed, racing, o,
                               registerStatus(o.error))]
           /\ users' = o.users
           /\ refreshTokens' = o.refreshTokens
           /\ issued' = IF o.tokens # NoTokens THEN issued \cup {o.tokens} ELSE issued
    /\ rpc' = [rpc EXCEPT ![r] = "done"]
    /\ UNCHANGED <<rdoc, rbase, invVars, orderVars>>
    /\ UNCHANGED <<blacklist, expired, reply, rotated, revoked, loggedOut>>

RegisterInit ==
    /\ stored = Doc(0, 0)
    /\ inv = stored
    /\ call = NoCall
    /\ prev = NoCall
    /\ rpc = [r \in Requests |-> "idle"]
    /\ rdoc = [r \in Requests |-> Doc(0, 0)]
    /\ rcall = [r \in Requests |-> NoRegistration]
    /\ rbase = 0
    /\ users \in { [u \in UserIds |-> NoUser],
                    [u \in UserIds |->
                        IF u = 1
                        THEN UserDoc(1, "a@mart.in", "+911", Hash("secret1"),
                                     "CUSTOMER", TRUE)
                        ELSE NoUser] }
    /\ refreshTokens = [u \in UserIds |-> NoToken]
    /\ blacklist = {}
    /\ issued = {}
    /\ expired = [access |-> 0, refresh |-> 0]
    /\ reply = NoReply
    /\ rotated = {}
    /\ revoked = {}
    /\ loggedOut = {}
    /\ OrderIdle

RegisterNext == \E r \in Requests : RegisterFindOne(r) \/ RegisterCreate(r)

RegisterSpec == RegisterInit /\ [][RegisterNext]_vars

(***************************************************************************)
(* OrderSpec: one order and any sequence of its methods                    *)
(***************************************************************************)
OrderInit ==
    /\ stored = Doc(0, 0)
    /\ inv = stored
    /\ call = NoCall
    /\ prev = NoCall
    /\ RaceIdle
    /\ AuthIdle
    /\ OrderIdle

OrderNext ==
    \/ UpdateStatus
    \/ Cancel
    \/ MarkAsPaid

OrderSpec == OrderInit /\ [][OrderNext]_vars

(***************************************************************************)
(* PriceSpec: a record's discounts and the prices computed from them       *)
(***************************************************************************)
PriceInit ==
    /\ \E sellingPrice \in {0, 100} : inv = PricedDoc(sellingPrice, <<>>)
    /\ stored = inv
    /\ call = NoPriceCall
    /\ prev = NoPriceCall
    /\ RaceIdle
    /\ AuthIdle
    /\ OrderIdle

PriceNext ==
    \/ AddDiscount
    \/ CalculateFinalPrice

PriceSpec == PriceInit /\ [][PriceNext]_vars

(***************************************************************************)
(* RefreshSpec: concurrent refreshToken calls                              *)
(***************************************************************************)
NoRefresh == [token |-> NoToken, error |-> "", tokens |-> NoTokens]

\* refreshToken up to the user check: the token is verified, the stored token
\* read and compared, the user looked up; a failed check ends the request
RefreshCheck(r) ==
    /\ rpc[r] = "idle"
    /\ \E token \in IssuedRefreshTokens \cup {Forged} :
        LET error == refreshToken(token).error
        IN  /\ rpc' = [rpc EXCEPT ![r] = IF error = "" THEN "checked" ELSE "done"]
            /\ rcall' = [rcall EXCEPT ![r] =
                   [token |-> token, error |-> error, tokens |-> NoTokens]]
    /\ UNCHANGED <<rdoc, rbase, invVars, authVars, orderVars>>

\* refreshToken from generateTokenPair on: the new pair is generated, its
\* refresh token stored over the user's stored token, and the pair returned
RefreshIssue(r) ==
    /\ rpc[r] = "checked"
    /\ Cardinality(issued) < MaxIssued
    /\ LET o == issueTokens(users, findById(users, rcall[r].token.userId))
       IN  /\ rcall' = [rcall EXCEPT ![r].tokens = o.tokens]
           /\ refreshTokens' = o.refreshTokens
           /\ issued' = issued \cup {o.tokens}
    /\ rpc' = [rpc EXCEPT ![r] = "done"]
    /\ UNCHANGED <<rdoc, rbase, invVars, orderVars>>
    /\ UNCHANGED <<users, blacklist, expired, reply, rotated, revoked, loggedOut>>

RefreshInit ==
    /\ stored = Doc(0, 0)
    /\ inv = stored
    /\ call = NoCall
    /\ prev = NoCall
    /\ rpc = [r \in Requests |-> "idle"]
    /\ rdoc = [r \in Requests |-> Doc(0, 0)]
    /\ rcall = [r \in Requests |-> NoRefresh]
    /\ rbase = 0
    /\ users \in InitialUsers
    /\ refreshTokens = [u \in UserIds |-> NoToken]
    /\ blacklist = {}
    /\ issued = {}
    /\ expired = [access |-> 0, refresh |-> 0]
    /\ reply = NoReply
    /\ rotated = {}
    /\ revoked = {}
    /\ loggedOut = {}
    /\ OrderIdle

RefreshNext ==
    \/ Login
    \/ \E r \in Requests : RefreshCheck(r) \/ RefreshIssue(r)

RefreshSpec == RefreshInit /\ [][RefreshNext]_vars

(***************************************************************************)
(* Inventory claims (checked under Spec)                                   *)
(***************************************************************************)

\* C1: in every state reached by updateStock / reserveStock /
\* releaseReservedStock / confirmReservedStock calls on a record that starts
\* with 0 <= reservedStock <= currentStock, reservedStock never exceeds
\* currentStock: in the persisted record, and in the in-memory record after
\* every call that did not throw.
C1_ReservedNeverExceedsCurrent ==
    /\ stored.reservedStock <= stored.currentStock
    /\ call.result \notin Thrown => inv.reservedStock <= inv.currentStock

\* C3: reserveStock(qty) returns true exactly when currentStock - reservedStock
\* >= qty held before the call; it never throws; on true reservedStock has
\* grown by exactly qty (currentStock as it was) and the record is saved; on
\* false neither the in-memory nor the persisted record has changed.
C3_ReserveContract ==
    call.op = "reserveStock" =>
        LET b == call.before
        IN  /\ call.result \in {"true", "false"}
            /\ (call.result = "true") <=>
                   (b.currentStock - b.reservedStock >= call.quantity)
            /\ call.result = "true" =>
                   /\ inv.reservedStock = b.reservedStock + call.quantity
                   /\ inv.currentStock = b.currentStock
                   /\ stored = inv
            /\ call.result = "false" =>
                   /\ inv = b
                   /\ stored = call.storedBefore

\* C3 witness: a reservation of a positive quantity was granted on a record
\* that already held reservations, and one was refused just before it.
C3_Witness ==
    /\ call.op = "reserveStock" /\ call.result = "true" /\ call.quantity > 0
    /\ call.before.reservedStock > 0
    /\ prev.op = "reserveStock" /\ prev.result = "false"

C5_ReleaseContract ==
    call.op = "releaseReservedStock" =>
        LET b == call.before
        IN  /\ inv.reservedStock =
                   b.reservedStock - Min(call.quantity, b.reservedStock)
            /\ inv.reservedStock >= 0
            /\ inv.currentStock = b.currentStock
            /\ stored.currentStock = call.storedBefore.currentStock
            /\ stored.reservedStock >= 0

\* C5 witness: a release of more than was reserved, on a record with a
\* reservation, was clamped at zero.
C5_Witness ==
    /\ call.op = "releaseReservedStock"
    /\ call.before.reservedStock > 0
    /\ call.quantity > call.before.reservedStock
    /\ inv.reservedStock = 0 /\ stored.reservedStock = 0

\* C6: when reserveStock(qty) returned true, a releaseReservedStock(qty) that
\* follows it immediately returns reservedStock to its value before the
\* reserve, currentStock being the same before, between and after (in memory
\* and persisted).
C6_ReserveThenRelease ==
    ( /\ call.op = "releaseReservedStock"
      /\ prev.op = "reserveStock" /\ prev.result = "true"
      /\ prev.quantity = call.quantity )
    =>  /\ inv.reservedStock = prev.before.reservedStock
        /\ inv.currentStock = prev.before.currentStock
        /\ call.before.currentStock = prev.before.currentStock
        /\ stored = inv
        /\ stored = prev.storedBefore

\* C6 witness: a granted reserve of a positive quantity on a record that held
\* reservations, followed by the release of the same quantity.
C6_Witness ==
    /\ call.op = "releaseReservedStock"
    /\ prev.op = "reserveStock" /\ prev.result = "true"
    /\ prev.quantity = call.quantity /\ call.quantity > 0
    /\ prev.before.reservedStock > 0

\* C7 as stated: no call of updateStock, reserveStock or releaseReservedStock
\* ever decreases currentStock (read on the calls that return normally: neither
\* the record's nor the persisted currentStock is lower after the call).
C7_OnlyConfirmConsumes ==
    ( /\ call.op \in {"updateStock", "reserveStock", "releaseReservedStock"}
      /\ call.result \notin Thrown )
    =>  /\ inv.currentStock >= call.before.currentStock
        /\ stored.currentStock >= call.storedBefore.currentStock

\* C7 amended: reserveStock and releaseReservedStock never change currentStock
\* (in memory or persisted), and updateStock decreases the record's
\* currentStock only when it is called with a negative quantity: it moves the
\* record's currentStock by exactly quantity.
C7_OnlyConfirmOrNegativeUpdateConsumes ==
    /\ call.op \in {"reserveStock", "releaseReservedStock"} =>
           /\ inv.currentStock = call.before.currentStock
           /\ stored.currentStock = call.storedBefore.currentStock
    /\ call.op = "updateStock" =>
           /\ inv.currentStock = call.before.currentStock + call.quantity
           /\ inv.currentStock < call.before.currentStock => call.quantity < 0

\* C7 witness: updateStock with a negative quantity was saved and took stock
\* out of the persisted record.
C7_Witness ==
    /\ call.op = "updateStock" /\ call.quantity < 0 /\ call.result = "ok"
    /\ stored.currentStock < call.storedBefore.currentStock

\* C28: an updateStock call that throws 'Insufficient stock' leaves the record
\* as it was before the call, currentStock with its prior value, so that the
\* in-memory record's currentStock is never negative.
C28_FailedUpdateLeavesRecord ==
    /\ (call.op = "updateStock" /\ call.result = "Insufficient stock") =>
           inv = call.before
    /\ inv.currentStock >= 0

(***************************************************************************)
(* Registration claims (checked under RegisterSpec)                        *)
(***************************************************************************)
\* C13: register with an email that already belongs to a persisted user fails
\* with 'User with this email already exists', answered 409, creates no user,
\* and neither issues nor stores any token.
C13_DuplicateEmailRejected ==
    \A r \in Requests :
        (rpc[r] = "done" /\ rcall[r].existed) =>
            /\ rcall[r].error = "User with this email already exists"
            /\ rcall[r].status = 409
            /\ rcall[r].usersAfter = rcall[r].usersBefore
            /\ rcall[r].tokens = NoTokens
            /\ rcall[r].storedAfter = rcall[r].storedBefore

\* C13 witness: a request whose email belonged to a persisted user has been
\* answered 409.
C13_Witness ==
    \E r \in Requests :
        /\ rpc[r] = "done" /\ rcall[r].existed
        /\ rcall[r].data.email = "a@mart.in"
        /\ rcall[r].status = 409

\* C14: in every reachable state no two persisted users share an email or a
\* phone, also when register requests with the same email, or with the same
\* phone and different emails, all pass findOne before any of them creates.
C14_EmailAndPhoneUnique ==
    \A u, v \in UserIds :
        (u # v /\ users[u] # NoUser /\ users[v] # NoUser) =>
            /\ users[u].email # users[v].email
            /\ users[u].phone # users[v].phone

\* C14 witness: two requests with the same email both passed findOne before
\* either created, and both have been answered.
C14_Witness ==
    \E r, q \in Requests :
        /\ r # q /\ rpc[r] = "done" /\ rpc[q] = "done"
        /\ ~rcall[r].existed /\ ~rcall[q].existed
        /\ rcall[r].data.email = rcall[q].data.email
        /\ rcall[r].data.userType = "CUSTOMER" /\ rcall[q].data.userType = "CUSTOMER"
        /\ rcall[r].racing

\* the role-specific fields a body lacks
LacksRoleFields(data) ==
    \/ data.userType = "RETAILER" /\ data.businessName = ""
    \/ /\ data.userType = "WHOLESALER"
       /\ (data.businessName = "" \/ data.gstin = "" \/ data.bankDetails = "")
    \/ data.userType \notin UserTypes

\* C15: register rejects a RETAILER without businessName, a WHOLESALER missing
\* any of businessName, gstin or bankDetails, and any userType other than
\* CUSTOMER/RETAILER/WHOLESALER, with the error of the role check when the
\* email is free; in each rejected case no user is persisted and no refresh
\* token is stored.
C15_RoleFieldsRequired ==
    \A r \in Requests :
        (rpc[r] = "done" /\ LacksRoleFields(rcall[r].data)) =>
            LET data == rcall[r].data
            IN  /\ rcall[r].error # ""
                /\ rcall[r].status \in {400, 409}
                /\ rcall[r].tokens = NoTokens
                /\ rcall[r].usersAfter = rcall[r].usersBefore
                /\ rcall[r].storedAfter = rcall[r].storedBefore
                /\ ~rcall[r].existed =>
                       /\ rcall[r].status = 400
                       /\ rcall[r].error =
                              IF data.userType = "RETAILER"
                              THEN "Business name is required for retailers"
                              ELSE IF data.userType # "WHOLESALER"
                              THEN "Invalid user type"
                              ELSE IF data.businessName = "" \/ data.gstin = ""
                              THEN "Business name and GSTIN are required for wholesalers"
                              ELSE "Bank details are required for wholesalers"

\* C15 witness: a wholesaler with businessName and gstin and without
\* bankDetails, its email free, has been rejected, and so has a retailer
\* without businessName.
C15_Witness ==
    \E r, q \in Requests :
        /\ rpc[r] = "done" /\ rpc[q] = "done"
        /\ ~rcall[r].existed /\ ~rcall[q].existed
        /\ rcall[r].data.userType = "WHOLESALER"
        /\ rcall[r].data.businessName # "" /\ rcall[r].data.gstin # ""
        /\ rcall[r].error = "Bank details are required for wholesalers"
        /\ rcall[q].data.userType = "RETAILER"
        /\ rcall[q].error = "Business name is required for retailers"

NonTerminal == {"PENDING", "CONFIRMED", "PROCESSING", "SHIPPED", "OUT_FOR_DELIVERY"}
Terminal == {"DELIVERED", "CANCELLED", "RETURNED"}

\* C18: cancel() on a DELIVERED order fails with an error and changes neither
\* status, paymentStatus nor the status history; cancel() on an order in a
\* non-terminal status sets status to CANCELLED, appends one CANCELLED entry
\* to the history and sets paymentStatus to CANCELLED.
C18_CancelContract ==
    ocall.op = "cancel" =>
        /\ ocall.before.status = "DELIVERED" =>
               /\ ocall.error = "Cannot cancel delivered order"
               /\ order = ocall.before
        /\ ocall.before.status \in NonTerminal =>
               /\ ocall.error = ""
               /\ order.status = "CANCELLED"
               /\ order.trackingInfo.currentStatus = "CANCELLED"
               /\ order.trackingInfo.statusHistory =
                      Append(ocall.before.trackingInfo.statusHistory,
                             HistoryEntry("CANCELLED", ocall.notes))
               /\ order.paymentStatus = "CANCELLED"

\* C18 witness: a paid order out for delivery has been cancelled.
C18_Witness ==
    /\ ocall.op = "cancel"
    /\ ocall.before.status = "OUT_FOR_DELIVERY"
    /\ ocall.before.paymentStatus = "COMPLETED"
    /\ order.status = "CANCELLED" /\ order.paymentStatus = "CANCELLED"

\* C19: once an order's status is DELIVERED, CANCELLED or RETURNED, no
\* updateStatus, cancel or markAsPaid call changes its status, paymentStatus
\* or status history.
C19_TerminalImmutable ==
    (ocall.op # "none" /\ ocall.before.status \in Terminal) => order = ocall.before

\* the forward chain: each status and the one that follows it
NextInChain ==
    {<<"PENDING", "CONFIRMED">>, <<"CONFIRMED", "PROCESSING">>,
     <<"PROCESSING", "SHIPPED">>, <<"SHIPPED", "OUT_FOR_DELIVERY">>,
     <<"OUT_FOR_DELIVERY", "DELIVERED">>}

\* C20: every status change made through updateStatus or cancel follows the
\* forward state machine: the new status is the next one in the chain
\* PENDING .. DELIVERED, or CANCELLED/RETURNED from a non-terminal status.
C20_ForwardStateMachine ==
    (ocall.op \in {"updateStatus", "cancel"} /\ order.status # ocall.before.status) =>
        \/ <<ocall.before.status, order.status>> \in NextInChain
        \/ /\ ocall.before.status \in NonTerminal
           /\ order.status \in {"CANCELLED", "RETURNED"}

\* C21: the status history is append-only and tracks the status: a new order
\* has status PENDING and a history of exactly one PENDING entry; each
\* successful updateStatus or cancel appends exactly one entry and leaves the
\* earlier ones as they were, any other call leaves the history as it was; and
\* in every reachable state the status of the last entry equals both
\* order.status and trackingInfo.currentStatus.
C21_HistoryAppendOnly ==
    LET history == order.trackingInfo.statusHistory
        before == ocall.before.trackingInfo.statusHistory
    IN  /\ ocall.op = "none" =>
               /\ order.status = "PENDING"
               /\ history = <<HistoryEntry("PENDING", "")>>
        /\ (ocall.op \in {"updateStatus", "cancel"} /\ ocall.error = "") =>
               /\ Len(history) = Len(before) + 1
               /\ SubSeq(history, 1, Len(before)) = before
               /\ history[Len(history)] = HistoryEntry(order.status, ocall.notes)
        /\ (ocall.op = "markAsPaid" \/ ocall.error # "") => history = before
        /\ Len(history) >= 1
        /\ history[Len(history)].status = order.status
        /\ order.trackingInfo.currentStatus = order.status

\* C21 witness: an order confirmed and then cancelled with a reason holds its
\* three entries in order.
C21_Witness ==
    /\ ocall.op = "cancel" /\ ocall.error = ""
    /\ order.trackingInfo.statusHistory =
           <<HistoryEntry("PENDING", ""), HistoryEntry("CONFIRMED", ""),
             HistoryEntry("CANCELLED", "changed my mind")>>

\* C29: cancel() agrees with the canCancel virtual: it succeeds only on an
\* order whose canCancel is true, so cancel() on a CANCELLED or RETURNED order
\* fails and appends no entry to the status history.
C29_CancelAgreesWithCanCancel ==
    ocall.op = "cancel" =>
        /\ ocall.error = "" => canCancel(ocall.before)
        /\ ~canCancel(ocall.before) =>
               /\ ocall.error # ""
               /\ order.trackingInfo.statusHistory =
                      ocall.before.trackingInfo.statusHistory

(***************************************************************************)
(* Pricing claims (checked under PriceSpec)                                *)
(***************************************************************************)
\* C22: calculateFinalPrice applies a discount only when it is active and the
\* current time is inside the half-open window validFrom <= now < validUntil;
\* a discount evaluated at now = validUntil is not applied.
C22_HalfOpenValidityWindow ==
    call.op = "calculateFinalPrice" =>
        \A i \in 1 .. Len(call.activeDiscounts) :
            LET d == call.activeDiscounts[i]
            IN  d.isActive /\ d.validFrom <= call.now /\ call.now < d.validUntil

\* C23: for every quantity >= 1 and every list of discounts with non-negative
\* value, minPurchase and maxDiscount, the price p returned satisfies
\* 0 <= p <= sellingPrice * quantity; each applied discount subtracts at most
\* its own maxDiscount when maxDiscount > 0; and a BUY_ONE_GET_ONE or
\* FREE_SHIPPING discount leaves the running price unchanged.
C23_PriceBounds ==
    call.op = "calculateFinalPrice" =>
        /\ 0 <= call.result
        /\ call.result <= Money(inv.sellingPrice) * call.quantity
        /\ Len(call.steps) = Len(call.activeDiscounts) + 1
        /\ \A i \in 1 .. Len(call.activeDiscounts) :
               LET d == call.activeDiscounts[i]
                   taken == call.steps[i] - call.steps[i + 1]
               IN  /\ taken >= 0
                   /\ d.maxDiscount > 0 => taken <= Money(d.maxDiscount)
                   /\ d.type \in {"BUY_ONE_GET_ONE", "FREE_SHIPPING"} => taken = 0

\* C23 witness: a percentage discount capped by its maxDiscount and a
\* BUY_ONE_GET_ONE discount were both applied to a price of 200.
C23_Witness ==
    /\ call.op = "calculateFinalPrice"
    /\ call.steps[1] = Money(200)
    /\ Len(call.activeDiscounts) = 2
    /\ call.activeDiscounts[1].type = "PERCENTAGE"
    /\ call.activeDiscounts[1].maxDiscount = 15
    /\ call.steps[1] - call.steps[2] = Money(15)
    /\ call.activeDiscounts[2].type = "BUY_ONE_GET_ONE"
    /\ call.result = Money(185)

\* the record holds one PERCENTAGE discount without maxDiscount, and now is
\* inside its window
SinglePercentage ==
    /\ call.op = "calculateFinalPrice"
    /\ Len(inv.discounts) = 1
    /\ inv.discounts[1].type = "PERCENTAGE"
    /\ inv.discounts[1].maxDiscount = 0
    /\ inv.discounts[1].isActive
    /\ inv.discounts[1].validFrom <= call.now /\ call.now < inv.discounts[1].validUntil

\* C24 as stated: with a single valid PERCENTAGE discount of value v, no
\* maxDiscount and minPurchase m, calculateFinalPrice(qty) returns
\* sellingPrice*qty*(100-v)/100 when sellingPrice*qty >= m, and
\* sellingPrice*qty otherwise.
C24_SinglePercentage ==
    SinglePercentage =>
        LET d == inv.discounts[1]
            total == Money(inv.sellingPrice) * call.quantity
        IN  IF total >= Money(d.minPurchase)
            THEN call.result * 100 = total * (100 - d.value)
            ELSE call.result = total

\* C24 amended: the same, for v <= 100; for v > 100 and sellingPrice*qty >= m
\* the price returned is 0.
C24_SinglePercentageFloored ==
    SinglePercentage =>
        LET d == inv.discounts[1]
            total == Money(inv.sellingPrice) * call.quantity
        IN  IF total < Money(d.minPurchase)
            THEN call.result = total
            ELSE IF d.value <= 100
            THEN call.result * 100 = total * (100 - d.value)
            ELSE call.result = 0

\* C24 witness: sellingPrice = 100, qty = 2, one PERCENTAGE discount of value
\* 10 with minPurchase 150 gives 180.
C24_Witness ==
    /\ SinglePercentage
    /\ inv.sellingPrice = 100 /\ call.quantity = 2
    /\ inv.discounts[1].value = 10 /\ inv.discounts[1].minPurchase = 150
    /\ call.result = Money(180)

(***************************************************************************)
(* Concurrent refresh (checked under RefreshSpec)                          *)
(***************************************************************************)
\* C25: a refresh token is rotated successfully at most once, also when
\* refreshToken calls presenting the same stored token interleave: at most one
\* of the calls presenting a given token returns a token pair.
C25_RotatedAtMostOnce ==
    \A token \in IssuedRefreshTokens :
        Cardinality({r \in Requests : /\ rpc[r] = "done"
                                      /\ rcall[r].token = token
                                      /\ rcall[r].tokens # NoTokens}) <= 1

(***************************************************************************)
(* Auth claims (checked under AuthSpec)                                    *)
(***************************************************************************)
\* C8 as stated: after refreshToken(t) has succeeded, any later refreshToken(t)
\* with the same old token fails with the token-mismatch error
\* 'Invalid refresh token' and issues no tokens.
C8_ReuseFailsWithMismatch ==
    (reply.op = "refreshToken" /\ reply.reused) =>
        /\ reply.error = "Invalid refresh token"
        /\ reply.tokens = NoTokens

\* C8 amended: after refreshToken(t) has succeeded, any later refreshToken(t)
\* fails, issues no tokens and stores none: with the token-mismatch error
\* 'Invalid refresh token' as long as t has not expired, and with the error of
\* the token's verification once t has expired.
C8_ReuseFails ==
    (reply.op = "refreshToken" /\ reply.reused) =>
        /\ reply.tokens = NoTokens
        /\ reply.status = 401
        /\ refreshTokens = reply.storedBefore
        /\ reply.error = IF Expired(reply.presented)
                         THEN "InvalidToken" ELSE "Invalid refresh token"

\* C8 witness: a token that was rotated is presented again, unexpired, by an
\* active user whose stored token is the one the rotation issued, and is
\* refused as a mismatch.
C8_Witness ==
    /\ reply.op = "refreshToken" /\ reply.reused
    /\ ~Expired(reply.presented)
    /\ findById(users, reply.presented.userId).isActive
    /\ refreshTokens[reply.presented.userId] # NoToken
    /\ reply.error = "Invalid refresh token"

\* C9: refreshToken(t) succeeds only if t is exactly the refresh token stored
\* for the user embedded in t; if none is stored or the stored one differs it
\* fails, issues nothing and leaves the token store unchanged; and after every
\* successful register, login or refreshToken the token stored for that user
\* is the refresh token just returned.
C9_OnlyStoredTokenHonored ==
    /\ reply.op = "refreshToken" =>
           LET storedToken == reply.storedBefore[reply.presented.userId]
           IN  /\ reply.error = "" => storedToken = reply.presented
               /\ (storedToken = NoToken \/ storedToken # reply.presented) =>
                      /\ reply.error # ""
                      /\ reply.tokens = NoTokens
                      /\ refreshTokens = reply.storedBefore
    /\ (reply.op \in {"register", "login", "refreshToken"} /\ reply.error = "") =>
           /\ reply.tokens # NoTokens
           /\ refreshTokens[reply.user.id] = reply.tokens.refreshToken
           /\ \A u \in UserIds \ {reply.user.id} :
                  refreshTokens[u] = reply.storedBefore[u]

\* C9 witness: a refreshToken call presenting the stored token succeeded, and
\* the store now holds the token it returned in place of the presented one.
C9_Witness ==
    /\ reply.op = "refreshToken" /\ reply.error = ""
    /\ reply.storedBefore[reply.presented.userId] = reply.presented
    /\ refreshTokens[reply.user.id] = reply.tokens.refreshToken
    /\ reply.tokens.refreshToken # reply.presented

\* C10: after logout(userId, accessToken) or logoutAll(userId) has completed,
\* every refreshToken call with a refresh token issued to that user before the
\* logout fails and issues nothing, until the user logs in or registers again.
C10_LogoutRevokesRefreshTokens ==
    (reply.op = "refreshToken" /\ reply.wasRevoked) =>
        /\ reply.error # ""
        /\ reply.tokens = NoTokens
        /\ refreshTokens = reply.storedBefore

\* C10 witness: the refresh token of a user who logged out is presented,
\* unexpired, the user being active, and is refused.
C10_Witness ==
    /\ reply.op = "refreshToken" /\ reply.wasRevoked
    /\ ~Expired(reply.presented)
    /\ findById(users, reply.presented.userId).isActive
    /\ reply.error = "Invalid refresh token"

\* C11: once a completed logout has blacklisted an access token, every later
\* request to a protected route (GET /me, POST /logout, POST /logout-all) that
\* presents it while it has not expired is answered 401 by the middleware: the
\* controller does not run, so nothing is issued and the token store is as it
\* was.
C11_BlacklistedTokenRejected ==
    (/\ reply.op \in {"me", "logout", "logoutAll"}
     /\ reply.wasLoggedOut
     /\ ~Expired(reply.presented)) =>
        /\ reply.status = 401
        /\ reply.error = Unauthenticated
        /\ reply.tokens = NoTokens
        /\ refreshTokens = reply.storedBefore

\* C11 witness: a user logged out, logged in again, and the access token of
\* the first session is then presented to POST /logout-all and refused, the
\* new session's refresh token staying stored.
C11_Witness ==
    /\ reply.op = "logoutAll" /\ reply.wasLoggedOut
    /\ ~Expired(reply.presented)
    /\ reply.status = 401
    /\ refreshTokens[reply.presented.userId] # NoToken

\* C12: refreshToken fails, issues no tokens and leaves the stored refresh
\* token unchanged when the user named in the token does not exist or has
\* isActive = false, even if the presented token is the stored one.
C12_RefreshNeedsActiveUser ==
    (/\ reply.op = "refreshToken"
     /\ LET user == findById(users, reply.presented.userId)
        IN  user = NoUser \/ ~user.isActive) =>
        /\ reply.error # ""
        /\ reply.status = 401
        /\ reply.tokens = NoTokens
        /\ refreshTokens = reply.storedBefore

\* C12 witness: a deactivated user presents the stored, unexpired refresh
\* token and is refused on the user check.
C12_Witness ==
    /\ reply.op = "refreshToken"
    /\ reply.presented = reply.storedBefore[reply.presented.userId]
    /\ ~Expired(reply.presented)
    /\ ~findById(users, reply.presented.userId).isActive
    /\ reply.error = "User not found or inactive"

\* C16: login does not let the caller tell an unregistered email from a wrong
\* password: a login against an unknown email and a login against a
\* registered active account with a wrong password both give the error
\* 'Invalid email or password' and status 401, and issue and store nothing.
C16_LoginFailuresIndistinguishable ==
    (/\ reply.op = "login"
     /\ LET user == findOne(users, reply.email)
        IN  \/ user = NoUser
            \/ user.isActive /\ ~comparePassword(user, reply.password)) =>
        /\ reply.error = "Invalid email or password"
        /\ reply.status = 401
        /\ reply.tokens = NoTokens
        /\ reply.user = NoUser
        /\ refreshTokens = reply.storedBefore

\* C16 witness: a login with a wrong password against a registered active
\* account was refused, in a state where some email is unregistered.
C16_Witness ==
    /\ reply.op = "login"
    /\ findOne(users, reply.email) # NoUser
    /\ findOne(users, reply.email).isActive
    /\ ~comparePassword(findOne(users, reply.email), reply.password)
    /\ reply.status = 401
    /\ \E e \in Emails : findOne(users, e) = NoUser

\* C17: login on an account with isActive = false fails with the
\* account-deactivated error, status 403, whatever password is given, issues
\* no token pair and leaves the refresh token stored for that user unchanged.
C17_DeactivatedLoginRefused ==
    (/\ reply.op = "login"
     /\ findOne(users, reply.email) # NoUser
     /\ ~findOne(users, reply.email).isActive) =>
        /\ reply.error = "Account is deactivated. Please contact support."
        /\ reply.status = 403
        /\ reply.tokens = NoTokens
        /\ refreshTokens = reply.storedBefore

\* C17 witness: a deactivated user who still has a refresh token stored logs
\* in with a wrong password and is answered 403.
C17_Witness ==
    /\ reply.op = "login"
    /\ findOne(users, reply.email) # NoUser
    /\ ~findOne(users, reply.email).isActive
    /\ ~comparePassword(findOne(users, reply.email), reply.password)
    /\ reply.storedBefore[findOne(users, reply.email).id] # NoToken
    /\ reply.status = 403

\* a pair was issued to the token's user after the token, by a call that came
\* before the last one
Superseded(token) ==
    \E pair \in issued \ {reply.tokens} :
        /\ pair.refreshToken.userId = token.userId
        /\ pair.refreshToken.serial > token.serial

\* C26: at most one refresh token per user is honored at any time: once a later
\* successful login (or register, or refreshToken) has issued the user a new
\* pair, a refreshToken call presenting the earlier refresh token is rejected,
\* issues nothing and leaves the store unchanged, with or without a logout in
\* between; and in every state at most one issued token per user would pass.
C26_OneRefreshTokenPerUser ==
    /\ (reply.op = "refreshToken" /\ Superseded(reply.presented)) =>
           /\ reply.error # ""
           /\ reply.status = 401
           /\ reply.tokens = NoTokens
           /\ refreshTokens = reply.storedBefore
    /\ \A u \in UserIds :
           Cardinality({t \in TokensOf(u) : refreshToken(t).error = ""}) <= 1

\* C26 witness: nobody has logged out, a user has logged in twice, and the
\* first login's refresh token, unexpired and never rotated, is refused as a
\* mismatch while the second login's token is the stored one.
C26_Witness ==
    /\ reply.op = "refreshToken" /\ Superseded(reply.presented)
    /\ ~reply.reused /\ ~reply.wasRevoked
    /\ rotated = {} /\ revoked = {} /\ loggedOut = {}
    /\ ~Expired(reply.presented)
    /\ reply.storedBefore[reply.presented.userId] \in TokensOf(reply.presented.userId)
    /\ reply.error = "Invalid refresh token"
    /\ reply.tokens = NoTokens

====
